---------------------------- MODULE Spec2Model ----------------------------
(***************************************************************************)
(* Model of the incremental code-backup tool (code_backup/file_copy.py).   *)
(*                                                                         *)
(* The file system is modelled as finite maps from paths to file contents. *)
(* A path is a record [dir, base, ext]: the directory components, and the  *)
(* file name as os.path.splitext splits it.  The destination root holds    *)
(* backup directories (dirs) and archives (zips), both keyed by the        *)
(* timestamp name; a zip with key n is the file <n>.zip.                    *)
(*                                                                         *)
(* main() is a sequential process; pc is its position.  Each function main *)
(* calls (copy_code_files, compress_backup, shutil.rmtree,                 *)
(* cleanup_old_backups) is one action.  The environment edits the source   *)
(* tree, lets the clock advance, may make the hash or the copy of a file   *)
(* fail and may kill the process while it writes the manifest.             *)
(* restore_backup and verify_backup, which main() does not call, have      *)
(* specifications of their own (SpecArchive, SpecVerify).                  *)
(***************************************************************************)
EXTENDS Naturals, Sequences, FiniteSets, TLC

VARIABLES
    source,     \* source tree (where source_directory names one): path -> content
    dirs,       \* destination root, directories: name -> [files, mtime]
    zips,       \* destination root, <name>.zip files: name -> [members, mtime, of]
    now,        \* wall clock, in seconds
    pc,         \* position of main()
    config,     \* the config dict (config.json) main() is called with
    backup_dir, \* main()'s local backup_dir (name under the destination root)
    run,        \* what the last completed copy_code_files computed
    log,        \* calls main() has completed in the current run, in order
    removed,    \* entries cleanup_old_backups deleted in the current run
    calls,      \* number of times main() has been called
    restored,   \* tree produced by the last restore_backup call
    fault,      \* the I/O error copy_code_files met in the current run, if any
    verification \* what the last verify_backup call returned

vars == <<source, dirs, zips, now, pc, config, backup_dir, run, log, removed, calls, restored, fault,
         verification>>

---------------------------------------------------------------------------
(* Bounds of the model. *)

MaxTime == 2      \* the clock runs over 1..MaxTime
MaxKeep == 1      \* keep_count is drawn from 0..MaxKeep
MaxContent == 2   \* file contents are 1..MaxContent
MaxCalls == 2     \* main() is called at most MaxCalls times

---------------------------------------------------------------------------
(* Paths, names and contents. *)

EmptyMap == <<>>

Path(d, b, e) == [dir |-> d, base |-> b, ext |-> e]

A_PY     == Path(<<>>, "a", ".py")
B_PY     == Path(<<"lib">>, "b", ".PY")
DEP_JS   == Path(<<"lib", "node_modules", "pkg">>, "dep", ".js")
NOTES    == Path(<<>>, "notes", ".bin")

\* Files written by copy_code_files itself, at the top of the backup directory.
BACKUP_INFO   == Path(<<>>, "backup_info", ".json")
BACKUP_RECORD == Path(<<>>, "backup_record", ".md")
ENV_INFO      == Path(<<>>, "environment_info", ".json")
REQUIREMENTS  == Path(<<>>, "requirements_lcychat", ".txt")

CODE_FILE_TYPES ==
    {".py", ".md", ".txt", ".json", ".yml", ".yaml", ".js", ".html", ".css",
     ".sql", ".sh", ".bat", ".ini", ".conf", ".xml", ".toml"}

\* str.lower() on the extensions of the model's files.
Lower(ext) == CASE ext = ".PY" -> ".py"
                [] ext = ".JS" -> ".js"
                [] OTHER -> ext

Data(b) == [kind |-> "data", bytes |-> b]

\* hashlib.sha256 over the file's bytes: distinct contents, distinct digests.
\* The bytes of a file the engine writes are those of no source file.
calculate_file_hash(content) ==
    IF content.kind = "data" THEN (content.bytes * 11 + 5) % 64 ELSE 0

\* datetime.now().strftime("%Y%m%d_%H%M%S"): a fixed-width digit string.
Strftime(t) == <<(t \div 10) % 10, t % 10>>

\* Python's < on strings: lexicographic, a proper prefix is smaller.
RECURSIVE LexLess(_, _)
LexLess(a, b) ==
    IF b = <<>> THEN FALSE
    ELSE IF a = <<>> THEN TRUE
    ELSE IF Head(a) # Head(b) THEN Head(a) < Head(b)
    ELSE LexLess(Tail(a), Tail(b))

\* max() over a non-empty list of names.
MaxName(S) == CHOOSE m \in S : \A n \in S : n = m \/ LexLess(n, m)

IsPrefix(p, d) == Len(p) <= Len(d) /\ SubSeq(d, 1, Len(p)) = p

\* A set as a sequence, in the order a directory listing returns it.
RECURSIVE Listing(_)
Listing(S) ==
    IF S = {} THEN <<>>
    ELSE LET x == CHOOSE y \in S : TRUE IN <<x>> \o Listing(S \ {x})

RECURSIVE Concat(_)
Concat(ss) == IF ss = <<>> THEN <<>> ELSE Head(ss) \o Concat(Tail(ss))

Range(s) == {s[i] : i \in DOMAIN s}

---------------------------------------------------------------------------
(* Directory traversal: os.walk with the in-place filter of dirs. *)

FilesIn(tree, d) == {p \in DOMAIN tree : p.dir = d}

SubDirs(tree, d) ==
    {p.dir[Len(d) + 1] : p \in {q \in DOMAIN tree : IsPrefix(d, q.dir) /\ Len(q.dir) > Len(d)}}

\* The filter assigned to a new list instead of dirs[:]: nothing is pruned.
KeepDir_NoPrune(d, exclude_folders) == TRUE

\* dirs[:] = [d for d in dirs if d not in exclude_folders]
KeepDir(d, exclude_folders) == d \notin exclude_folders

\* os.walk(source_dir), top-down: one [root, files] entry per directory
\* visited; only the directories the filter keeps are descended into.
RECURSIVE Walk(_, _, _)
Walk(tree, root, exclude_folders) ==
    LET kept == SelectSeq(Listing(SubDirs(tree, root)),
                          LAMBDA d : KeepDir(d, exclude_folders))
    IN  <<[root |-> root, files |-> Listing(FilesIn(tree, root))]>>
        \o Concat([i \in DOMAIN kept |->
                      Walk(tree, root \o <<kept[i]>>, exclude_folders)])

IsCodeFile(p) == Lower(p.ext) \in CODE_FILE_TYPES

\* The files the loop body runs for, in traversal order.
Candidates(tree, exclude_folders) ==
    LET w == Walk(tree, <<>>, exclude_folders)
    IN  SelectSeq(Concat([i \in DOMAIN w |-> w[i].files]), IsCodeFile)

Visited(tree, exclude_folders) ==
    LET w == Walk(tree, <<>>, exclude_folders) IN {w[i].root : i \in DOMAIN w}

---------------------------------------------------------------------------
(* Prior manifest and change detection. *)

\* {file['path']: file['hash'] for file in last_info['files']}
LoadHashes(files) ==
    [p \in {files[i].path : i \in DOMAIN files} |->
        LET last == CHOOSE i \in DOMAIN files :
                        /\ files[i].path = p
                        /\ \A j \in DOMAIN files : files[j].path = p => j <= i
        IN  files[last].hash]

\* os.makedirs(backup_dir) unless it exists.
MakeDirs(ds, name, t) ==
    IF name \in DOMAIN ds THEN ds
    ELSE ds @@ (name :> [files |-> EmptyMap, mtime |-> t])

\* The lookup of the last backup: the greatest directory name in the
\* destination root, its backup_info.json if there is one.  json.load raises
\* on a file that is not a well-formed manifest.
PriorManifest(ds) ==
    LET last_backup_dir == MaxName(DOMAIN ds)
        fs == ds[last_backup_dir].files
    IN  IF BACKUP_INFO \in DOMAIN fs
        THEN IF fs[BACKUP_INFO].kind = "manifest"
             THEN [raised |-> FALSE, dir |-> last_backup_dir,
                   hash |-> LoadHashes(fs[BACKUP_INFO].files)]
             ELSE [raised |-> TRUE, dir |-> last_backup_dir, hash |-> EmptyMap]
        ELSE [raised |-> FALSE, dir |-> last_backup_dir, hash |-> EmptyMap]

\* The comparison taken only for paths the prior mapping lacks.
IsModified_NewOnly(relative_path, file_hash, last_backup_hash) ==
    relative_path \notin DOMAIN last_backup_hash

\* is_modified
IsModified(relative_path, file_hash, last_backup_hash) ==
    IF relative_path \in DOMAIN last_backup_hash
    THEN last_backup_hash[relative_path] # file_hash
    ELSE TRUE

\* file_info; size and modified time are metadata no operation reads back.
FileInfo(p, tree, last_backup_hash) ==
    LET file_hash == calculate_file_hash(tree[p])
    IN  [path |-> p, type |-> Lower(p.ext), hash |-> file_hash,
         changed_since_last_backup |-> IsModified(p, file_hash, last_backup_hash)]

\* dict.get(key): None, which is falsy, when the key is absent.
Get(file_info, key) ==
    IF key \in DOMAIN file_info THEN file_info[key] ELSE FALSE

ChangeClass(file_info) ==
    IF file_info.changed_since_last_backup
    THEN IF ~Get(file_info, "existed_in_last_backup") THEN "new" ELSE "modified"
    ELSE "unchanged"

generate_change_report(files) ==
    LET paths(c) == LET sel == SelectSeq(files, LAMBDA f : ChangeClass(f) = c)
                    IN  [i \in DOMAIN sel |-> sel[i].path]
    IN  [new |-> paths("new"), modified |-> paths("modified"),
         unchanged |-> paths("unchanged")]

generate_backup_summary(files, changes) ==
    [kind |-> "report", total_files |-> Len(files),
     new_files |-> Len(changes.new), modified_files |-> Len(changes.modified),
     unchanged_files |-> Len(changes.unchanged)]

---------------------------------------------------------------------------
(* copy_code_files. *)

\* get_installed_packages({"lcychat", "openmmlab"}): the environments, among
\* these two, that the interpreter running the tool has packages of.
InstalledPackages == {"lcychat"}

Manifest(files, exclude_folders) ==
    [kind |-> "manifest", files |-> files, exclude_folders |-> exclude_folders]

\* A backup_info.json that json.dump did not finish writing.
Truncated == [kind |-> "truncated"]

\* retry_on_error(max_retries=3, delay=1): the decorator's defaults.
max_retries == 3

\* An I/O error of the copy loop: the operation on the at-th candidate file
\* fails, `failures' times in a row before it would succeed: once, or for a
\* copy as often as the decorator would attempt it.
NoFault == [at |-> 0, op |-> "none", failures |-> 0]

Faults(cands) ==
    {NoFault} \cup [at : DOMAIN cands, op : {"hash"}, failures : {1}]
              \cup [at : DOMAIN cands, op : {"copy"}, failures : {1, max_retries}]

\* file_hash = calculate_file_hash(source_file) and
\* shutil.copy2(source_file, target_file), as the loop calls them: once.
\* TRUE when the call returns, FALSE when it raises.
HashFile(failures) == failures = 0

CopyFile(failures) == failures = 0

\* retry_on_error(max_retries)(func)(...): the wrapper's loop, `retries'
\* attempts having failed, when func fails `failures' times in a row before
\* it would return.  The wrapper raises func's error at the attempt that
\* brings retries to max_retries and sleeps `delay' before any other retry.
RECURSIVE Wrapper(_, _, _)
Wrapper(n, failures, retries) ==
    IF ~(retries < n) THEN [raised |-> FALSE, attempts |-> retries]
    ELSE IF retries + 1 > failures THEN [raised |-> FALSE, attempts |-> retries + 1]
    ELSE IF retries + 1 = n THEN [raised |-> TRUE, attempts |-> retries + 1]
    ELSE Wrapper(n, failures, retries + 1)

retry_on_error(n, failures) == Wrapper(n, failures, 0)

\* safe_copy_file(source, target): shutil.copy2 under @retry_on_error().
\* copy_code_files does not call it.
safe_copy_file(failures) == retry_on_error(max_retries, failures)

\* The loop over the candidate files: the files it has copied when it ends,
\* and whether it ended by raising.  Nothing in the loop catches an error.
CopyLoop_Skip(cands, f) ==
    [copied |-> [i \in 1..(Len(cands) - (IF f.at \in DOMAIN cands THEN 1 ELSE 0)) |->
                    IF f.at \in DOMAIN cands /\ i >= f.at THEN cands[i + 1] ELSE cands[i]],
     raised |-> FALSE]

CopyLoop(cands, f) ==
    IF /\ f.at \in DOMAIN cands
       /\ ~(IF f.op = "hash" THEN HashFile(f.failures) ELSE CopyFile(f.failures))
    THEN [copied |-> SubSeq(cands, 1, f.at - 1), raised |-> TRUE]
    ELSE [copied |-> cands, raised |-> FALSE]

\* The copies the loop has made of the files in cands.
Copies(tree, cands) == [p \in Range(cands) |-> tree[p]]

\* What one call computes, the prior manifest having been read and the loop
\* having gone through cands: the manifest entries, the files copied and the
\* files written.
CopyResult(tree, cands, exclude_folders, last_backup_hash, packages) ==
    LET files   == [i \in DOMAIN cands |-> FileInfo(cands[i], tree, last_backup_hash)]
        copies  == Copies(tree, cands)
        changes == generate_change_report(files)
        summary == generate_backup_summary(files, changes)
        reqs    == [p \in {REQUIREMENTS : e \in packages} |-> [kind |-> "requirements"]]
        \* later writes replace earlier ones at the same path
        written == (BACKUP_INFO :> Manifest(files, exclude_folders))
                   @@ (ENV_INFO :> [kind |-> "environment"])
                   @@ reqs
                   @@ (BACKUP_RECORD :> summary)
                   @@ copies
    IN  [files |-> files, copies |-> copies, changes |-> changes,
         summary |-> summary, written |-> written]

---------------------------------------------------------------------------
(* compress_backup and restore_backup. *)

\* zipfile's ZIP_DEFLATED member data, and what extraction makes of it.
Deflate(content) == [kind |-> "deflated", payload |-> content]
Inflate(member) == member.payload

\* arcname = os.path.basename(file_path): the archive is flat.
ArcName_Basename(root, file) == Path(<<>>, file.base, file.ext)

\* arcname = os.path.relpath(os.path.join(root, file), backup_dir), with root
\* given relative to backup_dir.
ArcName(root, file) == Path(root, file.base, file.ext)

\* zipf.write for every file below backup_dir, in os.walk order; a later
\* member of the same name is the one extraction ends with.
RECURSIVE ZipWrite(_, _, _)
ZipWrite(members, entries, tree) ==
    IF entries = <<>> THEN members
    ELSE LET e == Head(entries)
             arcname == ArcName(e.root, e.file)
         IN  ZipWrite((arcname :> Deflate(tree[e.file])) @@ members,
                      Tail(entries), tree)

WalkEntries(tree) ==
    LET w == Walk(tree, <<>>, {})
    IN  Concat([i \in DOMAIN w |->
                   [j \in DOMAIN w[i].files |->
                       [root |-> w[i].root, file |-> w[i].files[j]]]])

ZipMembers(tree) == ZipWrite(EmptyMap, WalkEntries(tree), tree)

\* zipf.extractall(restore_dir): each member at restore_dir/<arcname>.
ExtractAll(members) == [a \in DOMAIN members |-> Inflate(members[a])]

---------------------------------------------------------------------------
(* cleanup_old_backups. *)

DirEntry(n) == [kind |-> "dir", name |-> n]
ZipEntry(n) == [kind |-> "zip", name |-> n]

\* Directories and *.zip files directly under target_dir.
BackupEntries(ds, zs) ==
    {DirEntry(n) : n \in DOMAIN ds} \cup {ZipEntry(n) : n \in DOMAIN zs}

GetMTime(ds, zs, e) == IF e.kind = "dir" THEN ds[e.name].mtime ELSE zs[e.name].mtime

\* backup_dirs.sort(key=getmtime, reverse=True) over a listing in any order:
\* every arrangement with non-increasing mtime.
RECURSIVE SortedByMTime(_, _, _)
SortedByMTime(E, ds, zs) ==
    IF E = {} THEN {<<>>}
    ELSE UNION {{<<e>> \o s : s \in SortedByMTime(E \ {e}, ds, zs)} :
                   e \in {x \in E : \A y \in E :
                             GetMTime(ds, zs, x) >= GetMTime(ds, zs, y)}}

\* The sort without reverse=True: the slice holds the newest entries.
OldBackups_Ascending(sorted, keep_count) ==
    SubSeq(sorted, 1, Len(sorted) - keep_count)

\* backup_dirs[keep_count:]
OldBackups(sorted, keep_count) == SubSeq(sorted, keep_count + 1, Len(sorted))

Without(f, S) == [k \in DOMAIN f \ S |-> f[k]]

---------------------------------------------------------------------------
(* main(): control flow. *)

\* The directory removed before it is archived.
AfterCopy_RemoveFirst(cfg) ==
    IF cfg.compress_backup
    THEN IF ~cfg.keep_original THEN "rmtree" ELSE "compress"
    ELSE "retention"

\* if config.get('compress_backup', False)
AfterCopy(cfg) == IF cfg.compress_backup THEN "compress" ELSE "retention"

\* if not config.get('keep_original', True)
AfterCompress(cfg) == IF ~cfg.keep_original THEN "rmtree" ELSE "retention"

\* The cleanup moved to a finally clause: it runs after an error too.
OnError_Finally(cfg) == "retention"

\* except Exception: logging.error(...); raise
OnError(cfg) == "raised"

\* The config dicts main() is called with: which of the two keys it reads
\* with config[...] the dict has, and the directory source_directory names,
\* the source tree ("src") or a path at which nothing exists ("nowhere").
\* A key that is not read (keep_original without compress_backup,
\* keep_count without cleanup_enabled, exclude_folders over no tree, any key
\* when a config[...] raises) is left at one value.
RequiredFields == {"source_directory", "target_directory"}

Configs ==
    {cfg \in [given : SUBSET RequiredFields, source_directory : {"src", "nowhere"},
              exclude_folders : {{}, {"node_modules"}, {"lib"}},
              compress_backup : BOOLEAN, keep_original : BOOLEAN,
              cleanup_enabled : BOOLEAN, keep_count : 0..MaxKeep] :
        /\ ~cfg.compress_backup => cfg.keep_original
        /\ ~cfg.cleanup_enabled => cfg.keep_count = 0
        /\ cfg.source_directory = "nowhere" => cfg.exclude_folders = {}
        /\ cfg.given # RequiredFields
              => /\ cfg.source_directory = "src" /\ cfg.exclude_folders = {}
                 /\ ~cfg.compress_backup /\ ~cfg.cleanup_enabled}

\* os.path.exists(config['source_directory'])
SourceExists(cfg) == cfg.source_directory = "src"

\* validate_config(config): TRUE when it returns, FALSE when it raises
\* ValueError.  main() does not call it.
validate_config(cfg) ==
    /\ \A field \in RequiredFields : field \in cfg.given
    /\ SourceExists(cfg)

\* config['source_directory'], config['target_directory'] in the call of
\* copy_code_files: KeyError when the dict lacks one.
KeyError(cfg) == ~({"source_directory", "target_directory"} \subseteq cfg.given)

\* What os.walk(source_dir) goes through: nothing, silently, when
\* source_dir does not exist.
WalkedTree(cfg, tree) == IF SourceExists(cfg) THEN tree ELSE EmptyMap

NoName == <<>>

NoRun ==
    [name |-> NoName, prior_dir |-> NoName, last_backup_hash |-> EmptyMap,
     tree |-> EmptyMap, exclude_folders |-> {}, visited |-> {},
     files |-> <<>>, copies |-> EmptyMap, changes |-> generate_change_report(<<>>)]

NoRestore == [from |-> NoName, of |-> EmptyMap, complete |-> FALSE, tree |-> EmptyMap]

NoVerification == [of |-> NoName, success |-> TRUE, errors |-> <<>>]

Init ==
    /\ source = (B_PY :> Data(1)) @@ (DEP_JS :> Data(1)) @@ (NOTES :> Data(1))
    /\ dirs = EmptyMap
    /\ zips = EmptyMap
    /\ now = 1
    /\ pc = "idle"
    /\ config \in Configs
    /\ backup_dir = NoName
    /\ run = NoRun
    /\ log = <<>>
    /\ removed = {}
    /\ calls = 0
    /\ restored = NoRestore
    /\ fault = NoFault
    /\ verification = NoVerification

Returned == pc \in {"done", "raised", "killed"}

---------------------------------------------------------------------------
(* Environment. *)

\* A second passes.  The clock is read when copy_code_files starts and when
\* the archive is written; time passing at other positions of main() is
\* time passing after it has returned, and time passing after the last
\* call is seen by no call.
Tick ==
    /\ pc \in {"idle", "compress"}
    /\ pc = "idle" => calls < MaxCalls
    /\ now < MaxTime
    /\ now' = now + 1
    /\ UNCHANGED <<source, dirs, zips, pc, config, backup_dir, run, log, removed, calls, restored, fault, verification>>

\* The user creates a.py in the directory source_directory names, or saves
\* it with other content, before a run.
WriteSource ==
    /\ pc = "idle"
    /\ calls < MaxCalls
    /\ SourceExists(config)
    /\ \E c \in 1..MaxContent :
          /\ A_PY \in DOMAIN source => source[A_PY] # Data(c)
          /\ source' = (A_PY :> Data(c)) @@ source
    /\ UNCHANGED <<dirs, zips, now, pc, config, backup_dir, run, log, removed, calls, restored, fault, verification>>

---------------------------------------------------------------------------
(* main(). *)

\* main(config) is called.
MainStart ==
    /\ pc = "idle"
    /\ calls < MaxCalls
    /\ calls' = calls + 1
    /\ pc' = "copy"
    /\ UNCHANGED <<source, dirs, zips, now, config, backup_dir, run, log, removed, restored, fault, verification>>

\* main() has returned or raised to its caller, or the process is gone.
MainReturn ==
    /\ Returned
    /\ pc' = "idle"
    /\ backup_dir' = NoName
    /\ log' = <<>>
    /\ removed' = {}
    /\ fault' = NoFault
    /\ UNCHANGED <<source, dirs, zips, now, config, run, calls, restored, verification>>

\* backup_dir = copy_code_files(...): returns, or raises out of the read of
\* the prior manifest or out of the loop over the candidate files.
CopyCodeFiles ==
    /\ pc = "copy"
    /\ LET timestamp == Strftime(now)
           made      == MakeDirs(dirs, timestamp, now)
           prior     == PriorManifest(made)
           tree      == WalkedTree(config, source)
           cands     == Candidates(tree, config.exclude_folders)
       IN  IF KeyError(config)
           THEN /\ pc' = OnError(config)
                /\ log' = Append(log, "copy_raised")
                /\ fault' = NoFault
                /\ UNCHANGED <<dirs, backup_dir, run>>
           ELSE IF prior.raised
           THEN /\ dirs' = made
                /\ pc' = OnError(config)
                /\ log' = Append(log, "copy_raised")
                /\ fault' = NoFault
                /\ UNCHANGED <<backup_dir, run>>
           ELSE \E f \in Faults(cands) :
                LET loop == CopyLoop(cands, f)
                    r    == CopyResult(tree, loop.copied, config.exclude_folders,
                                       prior.hash, InstalledPackages)
                IN  /\ fault' = f
                    /\ IF loop.raised
                       THEN /\ dirs' = [made EXCEPT ![timestamp] =
                                           [files |-> r.copies @@ @.files, mtime |-> now]]
                            /\ pc' = OnError(config)
                            /\ log' = Append(log, "copy_raised")
                            /\ UNCHANGED <<backup_dir, run>>
                       ELSE /\ dirs' = [made EXCEPT ![timestamp] =
                                           [files |-> r.written @@ @.files, mtime |-> now]]
                            /\ backup_dir' = timestamp
                            /\ run' = [name |-> timestamp, prior_dir |-> prior.dir,
                                       last_backup_hash |-> prior.hash,
                                       tree |-> tree,
                                       exclude_folders |-> config.exclude_folders,
                                       visited |-> Visited(tree, config.exclude_folders),
                                       files |-> r.files, copies |-> r.copies,
                                       changes |-> r.changes]
                            /\ pc' = AfterCopy(config)
                            /\ log' = Append(log, "copy")
    /\ UNCHANGED <<source, zips, now, config, removed, calls, restored, verification>>

\* The process is killed while json.dump writes backup_info.json: everything
\* before it is on disk, the manifest is cut short.
CopyKilled ==
    /\ pc = "copy"
    /\ LET timestamp == Strftime(now)
           made      == MakeDirs(dirs, timestamp, now)
           prior     == PriorManifest(made)
           tree      == WalkedTree(config, source)
           cands     == Candidates(tree, config.exclude_folders)
       IN  /\ ~KeyError(config)
           /\ ~prior.raised
           /\ LET r == CopyResult(tree, cands, config.exclude_folders,
                                  prior.hash, InstalledPackages)
              IN  dirs' = [made EXCEPT ![timestamp] =
                              [files |-> (BACKUP_INFO :> Truncated)
                                         @@ r.written @@ @.files,
                               mtime |-> now]]
    /\ pc' = "killed"
    /\ log' = Append(log, "killed")
    /\ UNCHANGED <<source, zips, now, config, backup_dir, run, removed, calls, restored, fault, verification>>

\* zip_path = compress_backup(backup_dir) returns.
CompressBackup ==
    /\ pc = "compress"
    /\ backup_dir # NoName
    /\ zips' = (backup_dir :>
                  [members |-> ZipMembers(dirs[backup_dir].files),
                   mtime |-> now, complete |-> TRUE,
                   of |-> dirs[backup_dir].files])
               @@ zips
    /\ pc' = AfterCompress(config)
    /\ log' = Append(log, "compress")
    /\ UNCHANGED <<source, dirs, now, config, backup_dir, run, removed, calls, restored, fault, verification>>

\* compress_backup raises: ValueError on an empty backup_dir, before anything
\* is written, or a failed write, which leaves the archive incomplete.
CompressRaises ==
    /\ pc = "compress"
    /\ zips' = IF backup_dir = NoName THEN zips
               ELSE (backup_dir :>
                       [members |-> EmptyMap, mtime |-> now, complete |-> FALSE,
                        of |-> dirs[backup_dir].files])
                    @@ zips
    /\ pc' = OnError(config)
    /\ log' = Append(log, "compress_raised")
    /\ UNCHANGED <<source, dirs, now, config, backup_dir, run, removed, calls, restored, fault, verification>>

\* shutil.rmtree(backup_dir)
RemoveOriginal ==
    /\ pc = "rmtree"
    /\ dirs' = Without(dirs, {backup_dir})
    /\ pc' = "retention"
    /\ log' = Append(log, "rmtree")
    /\ UNCHANGED <<source, zips, now, config, backup_dir, run, removed, calls, restored, fault, verification>>

\* if config.get('cleanup_enabled', False): cleanup_old_backups(...)
Retention ==
    /\ pc = "retention"
    /\ IF config.cleanup_enabled
       THEN \E sorted \in SortedByMTime(BackupEntries(dirs, zips), dirs, zips) :
               LET old == Range(OldBackups(sorted, config.keep_count))
               IN  /\ dirs' = Without(dirs, {e.name : e \in {x \in old : x.kind = "dir"}})
                   /\ zips' = Without(zips, {e.name : e \in {x \in old : x.kind = "zip"}})
                   /\ removed' = old
                   /\ log' = Append(log, "cleanup")
       ELSE UNCHANGED <<dirs, zips, removed, log>>
    /\ pc' = "done"
    /\ UNCHANGED <<source, now, config, backup_dir, run, calls, restored, fault, verification>>

\* restore_backup(<name>.zip, restore_dir) into a restore_dir that is empty.
RestoreBackup ==
    /\ restored = NoRestore
    /\ \E n \in DOMAIN zips :
          restored' = [from |-> n, of |-> zips[n].of, complete |-> zips[n].complete,
                       tree |-> ExtractAll(zips[n].members)]
    /\ UNCHANGED <<source, dirs, zips, now, pc, config, backup_dir, run, log, removed, calls, fault, verification>>

Next ==
    \/ Tick
    \/ WriteSource
    \/ MainStart
    \/ MainReturn
    \/ CopyCodeFiles
    \/ CopyKilled
    \/ CompressBackup
    \/ CompressRaises
    \/ RemoveOriginal
    \/ Retention

Spec == Init /\ [][Next]_vars

---------------------------------------------------------------------------
(* compress_backup and restore_backup on their own: any backup directory,   *)
(* archived, the archive restored into an empty directory.                  *)

A2_PY == Path(<<"lib">>, "a", ".py")
C_TXT == Path(<<"lib", "doc">>, "c", ".txt")

ArchivePaths == {A_PY, A2_PY, C_TXT, BACKUP_INFO}

\* The backup directories: every tree over ArchivePaths.
ArchiveTrees ==
    UNION {[S -> {Data(c) : c \in 1..MaxContent}] : S \in SUBSET ArchivePaths}

InitArchive ==
    /\ source = EmptyMap
    /\ now = 1
    /\ backup_dir = Strftime(now)
    /\ \E tree \in ArchiveTrees :
          dirs = (backup_dir :> [files |-> tree, mtime |-> now])
    /\ zips = EmptyMap
    /\ pc = "compress"
    /\ config \in {cfg \in Configs : /\ validate_config(cfg)
                                     /\ cfg.compress_backup /\ cfg.exclude_folders = {}
                                     /\ ~cfg.cleanup_enabled}
    /\ run = NoRun
    /\ log = <<"copy">>
    /\ removed = {}
    /\ calls = 1
    /\ restored = NoRestore
    /\ fault = NoFault
    /\ verification = NoVerification

NextArchive ==
    \/ CompressBackup
    \/ CompressRaises
    \/ RemoveOriginal
    \/ RestoreBackup

SpecArchive == InitArchive /\ [][NextArchive]_vars

---------------------------------------------------------------------------
(* Properties. *)

Last(s) == s[Len(s)]

\* The step in which copy_code_files returns.
CopyReturns == log' = Append(log, "copy")

ReadableManifest(ds, n) ==
    /\ n \in DOMAIN ds
    /\ BACKUP_INFO \in DOMAIN ds[n].files
    /\ ds[n].files[BACKUP_INFO].kind = "manifest"

ManifestPaths(files) == {files[i].path : i \in DOMAIN files}

\* The mapping the specification selects: the manifest of the greatest
\* directory name that holds a readable manifest, empty when there is none.
GreatestReadable(ds) ==
    LET with == {n \in DOMAIN ds : ReadableManifest(ds, n)}
    IN  IF with = {} THEN EmptyMap
        ELSE LoadHashes(ds[MaxName(with)].files[BACKUP_INFO].files)

\* C1: of two consecutive completed runs, the second under a strictly
\* greater directory name and the first's directory and manifest still in
\* place, every file with the same path and content in both is recorded
\* with changed_since_last_backup = false by the second.
C1_UnchangedNotFlagged ==
    [][(/\ CopyReturns
        /\ run.name # NoName
        /\ LexLess(run.name, run'.name)
        /\ ReadableManifest(dirs, run.name)
        /\ dirs[run.name].files[BACKUP_INFO].files = run.files)
       => \A i \in DOMAIN run'.files :
             LET p == run'.files[i].path
             IN  (p \in ManifestPaths(run.files) /\ run.tree[p] = run'.tree[p])
                 => ~run'.files[i].changed_since_last_backup]_vars

\* C2: the prior mapping a run uses is the manifest of the lexicographically
\* greatest directory that holds a readable manifest; directories without
\* one are skipped; with none at all the mapping is empty.
C2_PriorIsGreatestReadable ==
    [][CopyReturns => run'.last_backup_hash = GreatestReadable(dirs)]_vars

\* The directory whose manifest the lookup is about to read: the greatest
\* name among the directories that hold a backup_info.json.
CorruptCandidate(ds) ==
    LET with == {n \in DOMAIN ds : BACKUP_INFO \in DOMAIN ds[n].files}
    IN  /\ with # {}
        /\ ds[MaxName(with)].files[BACKUP_INFO].kind # "manifest"

\* C3: with the candidate's backup_info.json malformed, copy_code_files does
\* not fail (no file operation failing): the run goes on and writes its own
\* manifest.
C3_CorruptManifestTolerated ==
    [][(/\ pc = "copy" /\ pc' \notin {"copy", "killed"}
        /\ CorruptCandidate(dirs) /\ fault' = NoFault)
       => /\ pc' # "raised"
          /\ ReadableManifest(dirs', Strftime(now))]_vars

\* C4: changed_since_last_backup is true exactly when the path is absent
\* from the prior mapping or mapped to a hash other than the file's.
C4_ChangedIffAbsentOrDiffers ==
    \A i \in DOMAIN run.files :
        LET f == run.files[i]
            h == calculate_file_hash(run.tree[f.path])
        IN  /\ f.hash = h
            /\ f.changed_since_last_backup
                 <=> (\/ f.path \notin DOMAIN run.last_backup_hash
                      \/ run.last_backup_hash[f.path] # h)

\* A run that found a prior mapping, with a file it maps to another hash
\* and a file it maps to the same hash.
C4_Witness ==
    /\ run.name # NoName
    /\ \E i, j \in DOMAIN run.files :
          /\ run.files[i].path \in DOMAIN run.last_backup_hash
          /\ run.files[i].changed_since_last_backup
          /\ run.files[j].path \in DOMAIN run.last_backup_hash
          /\ ~run.files[j].changed_since_last_backup

\* C5: the change report puts each manifest file in exactly one class: new
\* when its path is absent from the prior manifest, modified when present
\* with another hash, unchanged when present with the same hash.
C5_ReportClassifies ==
    \A i \in DOMAIN run.files :
        LET f == run.files[i]
            prior == run.last_backup_hash
            in(c) == f.path \in Range(run.changes[c])
        IN  /\ in("new") <=> f.path \notin DOMAIN prior
            /\ in("modified") <=> (f.path \in DOMAIN prior /\ prior[f.path] # f.hash)
            /\ in("unchanged") <=> (f.path \in DOMAIN prior /\ prior[f.path] = f.hash)

\* C6: cleanup_old_backups with keep-count N over M entries removes the
\* M - N entries of oldest modification time when M > N, nothing otherwise,
\* and leaves the entries it keeps as they were.
C6_RetentionRemovesOldest ==
    [][(pc = "retention" /\ pc' = "done" /\ config.cleanup_enabled)
       => LET before == BackupEntries(dirs, zips)
              after  == BackupEntries(dirs', zips')
              M == Cardinality(before)
              N == config.keep_count
          IN  /\ after \subseteq before
              /\ Cardinality(before \ after) = IF M > N THEN M - N ELSE 0
              /\ removed' = before \ after
              /\ \A r \in before \ after : \A k \in after :
                    GetMTime(dirs, zips, r) <= GetMTime(dirs, zips, k)
              /\ \A k \in after :
                    IF k.kind = "dir" THEN dirs'[k.name] = dirs[k.name]
                    ELSE zips'[k.name] = zips[k.name]]_vars

\* A cleanup that removed some entries and kept others.
C6_Witness ==
    /\ pc = "done"
    /\ removed # {}
    /\ config.keep_count > 0
    /\ Cardinality(BackupEntries(dirs, zips)) = config.keep_count

\* C7: main() deletes the uncompressed backup directory only once
\* compress_backup has returned for it; when compress_backup raises,
\* the directory stays as it is and main() raises.
C7_DeleteOnlyAfterArchive ==
    [][/\ (pc # "retention" /\ backup_dir \in DOMAIN dirs
                            /\ backup_dir \notin DOMAIN dirs')
          => /\ "compress" \in Range(log)
             /\ backup_dir \in DOMAIN zips
             /\ zips[backup_dir].complete
             /\ zips[backup_dir].of = dirs[backup_dir].files
       /\ (pc = "compress" /\ pc' # "compress" /\ "compress" \notin Range(log'))
          => /\ pc' = "raised"
             /\ dirs' = dirs]_vars

\* compress_backup has raised with the backup directory in place, after an
\* earlier run archived its directory and deleted it (no cleanup is
\* configured, so only main()'s rmtree can have deleted it).
C7_Witness ==
    /\ ~config.cleanup_enabled
    /\ ~config.keep_original
    /\ pc = "raised"
    /\ Last(log) = "compress_raised"
    /\ backup_dir \in DOMAIN dirs
    /\ \E n \in DOMAIN zips : zips[n].complete /\ n \notin DOMAIN dirs

Raised == {"copy_raised", "compress_raised"}

\* C8: cleanup_old_backups runs only after copy_code_files has returned
\* and, with compression on, after compress_backup has; once the backup or
\* the archiving has raised, nothing under the destination root is deleted
\* in that run.
C8_RetentionAfterArchive ==
    [][/\ (Len(log') > Len(log) /\ Last(log') = "cleanup")
          => /\ "copy" \in Range(log)
             /\ config.compress_backup => "compress" \in Range(log)
       /\ (Range(log) \cap Raised # {})
          => /\ BackupEntries(dirs, zips) \subseteq BackupEntries(dirs', zips')
             /\ "cleanup" \notin Range(log')
             /\ removed' = {}]_vars

\* A run with compression on whose cleanup deleted entries.
C8_Witness ==
    /\ pc = "done"
    /\ config.compress_backup
    /\ log = <<"copy", "compress", "cleanup">>
    /\ removed # {}

\* C9: an archive compress_backup returned, restored into an empty
\* directory, gives a file of the same content at every relative path of
\* the backup directory and no file anywhere else.
C9_RoundTrip ==
    (restored.from # NoName /\ restored.complete)
    => /\ DOMAIN restored.tree = DOMAIN restored.of
       /\ \A p \in DOMAIN restored.of : restored.tree[p] = restored.of[p]

\* A restored archive of a directory with files at its top and two levels
\* down.
C9_Witness ==
    /\ restored.from # NoName
    /\ restored.complete
    /\ {A_PY, A2_PY, C_TXT} \subseteq DOMAIN restored.of

HasExcludedAncestor(p, exclude_folders) ==
    \E k \in DOMAIN p.dir : p.dir[k] \in exclude_folders

\* C10: a source file below a directory whose name is excluded is not in
\* the manifest and not copied, whatever its extension, and no directory at
\* or below an excluded one is visited.
C10_ExcludedNeverBackedUp ==
    /\ \A p \in DOMAIN run.tree :
          HasExcludedAncestor(p, run.exclude_folders)
          => /\ p \notin ManifestPaths(run.files)
             /\ p \notin DOMAIN run.copies
    /\ \A d \in run.visited :
          \A k \in DOMAIN d : d[k] \notin run.exclude_folders

\* A run that excluded node_modules over a tree with a .js file two levels
\* below a node_modules directory, and backed other files up.
C10_Witness ==
    /\ run.name # NoName
    /\ run.exclude_folders = {"node_modules"}
    /\ DEP_JS \in DOMAIN run.tree
    /\ IsCodeFile(DEP_JS)
    /\ run.files # <<>>

---------------------------------------------------------------------------
(* Errors of the copy loop. *)

\* The files of directory n of the destination root, none if it is not there.
FilesOf(ds, n) == IF n \in DOMAIN ds THEN ds[n].files ELSE EmptyMap

\* File p is in f as it is in g: absent from both, or the same in both.
SameAt(f, g, p) ==
    /\ p \in DOMAIN f <=> p \in DOMAIN g
    /\ p \in DOMAIN f => f[p] = g[p]

\* C11: when hashing or copying a candidate file fails, copy_code_files
\* stops at that file: main() raises to its caller instead of going on
\* without the file, the files before it are copied, neither it nor any
\* later candidate is, and the run writes no backup_info.json.
C11_AbortsAtFailingFile ==
    [][(pc = "copy" /\ fault' # NoFault)
       => LET timestamp == Strftime(now)
              before    == FilesOf(dirs, timestamp)
              after     == FilesOf(dirs', timestamp)
              cands     == Candidates(WalkedTree(config, source), config.exclude_folders)
          IN  /\ pc' = "raised"
              /\ Last(log') = "copy_raised"
              /\ backup_dir' = NoName
              /\ timestamp \in DOMAIN dirs'
              /\ \A i \in DOMAIN cands :
                    IF i < fault'.at
                    THEN cands[i] \in DOMAIN after /\ after[cands[i]] = source[cands[i]]
                    ELSE SameAt(after, before, cands[i])
              /\ SameAt(after, before, BACKUP_INFO)]_vars

\* main() has raised out of a loop that failed at its second candidate, of
\* at least three: the first is in the new directory, the others and a
\* manifest are not.
C11_Witness ==
    LET cands == Candidates(WalkedTree(config, source), config.exclude_folders)
        files == FilesOf(dirs, Strftime(now))
    IN  /\ pc = "raised"
        /\ fault.at = 2
        /\ Len(cands) >= 3
        /\ cands[1] \in DOMAIN files
        /\ cands[2] \notin DOMAIN files
        /\ cands[3] \notin DOMAIN files
        /\ BACKUP_INFO \notin DOMAIN files

\* C12: a failing copy of a candidate file is attempted up to max_retries
\* times: copy_code_files goes on when one of the attempts succeeds and
\* raises only when the last one fails; a failing hash is not retried.
C12_TransientCopyRetried ==
    [][(pc = "copy" /\ fault' # NoFault)
       => IF fault'.op = "copy"
          THEN pc' = "raised" <=> safe_copy_file(fault'.failures).raised
          ELSE pc' = "raised"]_vars

---------------------------------------------------------------------------
(* Configuration errors. *)

\* C13: called with a config that lacks source_directory or
\* target_directory, or whose source_directory does not exist, main() raises
\* before anything changes under the destination root: no directory,
\* manifest or archive is made and nothing is deleted.
C13_InvalidConfigNoChange ==
    [][(pc = "copy" /\ ~validate_config(config))
       => /\ pc' = "raised"
          /\ dirs' = dirs
          /\ zips' = zips
          /\ removed' = {}]_vars

---------------------------------------------------------------------------
(* verify_backup, over the backups of source trees whose root holds files *)
(* named like the files copy_code_files writes.                           *)

\* verify_backup(source_dir, backup_dir, backup_info): the entries of
\* backup_info['files'] whose file is missing from backup_dir or hashes to
\* another digest there, in order.  The source file is not read.
verify_backup(backup, files) ==
    LET checked == [i \in DOMAIN files |->
                       [path  |-> files[i].path,
                        error |-> IF files[i].path \notin DOMAIN backup THEN "missing"
                                  ELSE IF calculate_file_hash(backup[files[i].path])
                                          # files[i].hash THEN "mismatch"
                                  ELSE "none"]]
        errors  == SelectSeq(checked, LAMBDA e : e.error # "none")
    IN  [success |-> errors = <<>>, errors |-> errors]

\* verify_backup is called on the directory and the manifest entries of the
\* copy_code_files call that has just returned.
VerifyBackup ==
    /\ backup_dir # NoName
    /\ backup_dir \in DOMAIN dirs
    /\ verification.of = NoName
    /\ LET result == verify_backup(dirs[backup_dir].files, run.files)
       IN  verification' = [of |-> backup_dir, success |-> result.success,
                            errors |-> result.errors]
    /\ UNCHANGED <<source, dirs, zips, now, pc, config, backup_dir, run, log, removed, calls,
                   restored, fault>>

VerifyPaths == {A_PY, B_PY, BACKUP_INFO, BACKUP_RECORD, ENV_INFO, REQUIREMENTS}

\* The source trees: every tree over VerifyPaths.
VerifyTrees ==
    UNION {[S -> {Data(c) : c \in 1..MaxContent}] : S \in SUBSET VerifyPaths}

InitVerify ==
    /\ source \in VerifyTrees
    /\ dirs = EmptyMap
    /\ zips = EmptyMap
    /\ now = 1
    /\ pc = "copy"
    /\ config \in {cfg \in Configs : /\ validate_config(cfg)
                                     /\ ~cfg.compress_backup /\ ~cfg.cleanup_enabled}
    /\ backup_dir = NoName
    /\ run = NoRun
    /\ log = <<>>
    /\ removed = {}
    /\ calls = 1
    /\ restored = NoRestore
    /\ fault = NoFault
    /\ verification = NoVerification

NextVerify ==
    \/ CopyCodeFiles
    \/ VerifyBackup

SpecVerify == InitVerify /\ [][NextVerify]_vars

\* C14: after copy_code_files has returned, every entry of the manifest
\* it wrote names a file that is in the backup directory with the recorded
\* SHA-256: verify_backup succeeds and reports no error, whatever the
\* source files are called.
C14_BackupVerifies ==
    verification.of # NoName
    => /\ verification.success
       /\ verification.errors = <<>>

===========================================================================
